---- MODULE Spec2Model ----
(***************************************************************************)
(* Model of snappy/raytracing/raytracing_widget.py: the RaytracingWidget   *)
(* orchestration of filling edits, structure recomputation, the volume     *)
(* label, the cusp-area slider bound, the sliders of ui_parameter_dict,    *)
(* the view state, and the PerfTest timer loop.                            *)
(*                                                                         *)
(* Numbers.  Filling coefficients are Python floats; the model keeps them  *)
(* as integers counting halves (h stands for h/2), which is closed under   *)
(* the slider range, clamping and round().  Volumes are counted in 1/32    *)
(* (exactly representable floats, so '%.3f' is decided by exact rounding). *)
(***************************************************************************)
EXTENDS Integers, Sequences, FiniteSets, TLC

VARIABLES
    mfd,                        \* the external manifold object
    filling_dict,               \* self.filling_dict['fillings'][1]
    sliders,                    \* values displayed by self.filling_controllers
    vol_label,                  \* self.vol_label
    fillings_changed_callback,  \* TRUE iff the hook is set (not None)
    stack,                      \* call stack of the running event handler
    log,                        \* calls made by the running event handler
    dehn_fill_raises,           \* TRUE iff the engine rejects every dehn_fill
    request,                    \* the slider edit being handled
    cusp_engine,                \* what the engine answers to _maximal_cusp_area
    cusp_scales,                \* the 'Cusp i' sliders of the cusp areas frame
    perf,                       \* the PerfTest object and its timer
    ui_parameter_dict,          \* self.main_widget.ui_parameter_dict
    raytracing_data,            \* the raytracing data last built
    image                       \* what the last redraw has drawn

widgetVars == <<mfd, filling_dict, sliders, vol_label,
                fillings_changed_callback, stack, log, dehn_fill_raises,
                request>>
cuspVars == <<cusp_engine, cusp_scales>>
perfVars == <<perf>>
paramVars == <<ui_parameter_dict, raytracing_data, image>>
vars == <<widgetVars, cuspVars, perfVars, paramVars>>

(***************************************************************************)
(* Bounds of the model.                                                    *)
(***************************************************************************)
NumCusps == 1
MaxVolume == 70
MaxRoot == 8
MaxIterations == 5
MaxFrameTime == 2
MaxTotalTime == 4

(***************************************************************************)
(* Program constants.                                                      *)
(***************************************************************************)
FillingFrom == -15
\* A binding whose upper end is 20 instead of 15.
FillingTo_wide == 15 + 5
FillingTo == 15
FallbackArea == 5
\* Upper ends of the 'Insphere scale' and 'Edge thickness' sliders, in 1/100.
InsphereScaleTo == 125
EdgeTubeRadiusTo == 50
ScalePercent == 105

Cusps == 0 .. (NumCusps - 1)
Components == {0, 1}

\* Values a user may request with a filling slider, in halves:
\* -20, 0.5, 20.
Requests == {-40, 1, 40}

\* Filling pairs the manifold may carry at construction, in halves:
\* (0,0) and (1,2).
InitialPairs == {<<0, 0>>, <<2, 4>>}

\* Filling pairs the owner of the manifold may set behind the widget's
\* back, in halves: (20,1).
ExternalPairs == {<<40, 2>>}

(***************************************************************************)
(* Helpers: _solution_type_text.                                           *)
(***************************************************************************)
solution_type_text ==
    << "degenerate", "geometric", "non-geometric", "flat",
       "degenerate", "degenerate", "degenerate" >>

\* Python list indexing _solution_type_text[code]: a negative index counts
\* from the end, an index outside -len .. len-1 raises IndexError.
IndexRaises(code) ==
    \/ code >= Len(solution_type_text)
    \/ code < 0 - Len(solution_type_text)

IndexLookup(code) ==
    IF code >= 0
    THEN solution_type_text[code + 1]
    ELSE solution_type_text[code + Len(solution_type_text) + 1]

(***************************************************************************)
(* '%.3f' % v for v = n/32, n >= 0: the nearest multiple of 1/1000, ties   *)
(* to even.  The result is the number of thousandths; the text is its      *)
(* integer part, a point, and three digits.                                *)
(***************************************************************************)
FormatThousandths(n) ==
    LET q == (125 * n) \div 4
        r == (125 * n) % 4
    IN  IF r < 2 THEN q
        ELSE IF r > 2 THEN q + 1
        ELSE IF q % 2 = 0 THEN q ELSE q + 1

NumberText(n) ==
    [dash |-> FALSE,
     whole |-> FormatThousandths(n) \div 1000,
     frac |-> FormatThousandths(n) % 1000]

DashText == [dash |-> TRUE, whole |-> 0, frac |-> 0]

(***************************************************************************)
(* RaytracingWidget.update_volume_label.  The result is the new label and  *)
(* whether an exception leaves the method.                                 *)
(***************************************************************************)
VolText(m) ==
    IF m.volume.raises THEN DashText ELSE NumberText(m.volume.value)

\* update_volume_label without the "except ValueError".
update_volume_label_no_except(m, label) ==
    IF m.volume.raises \/ IndexRaises(m.solution_type)
    THEN [label |-> label, raised |-> TRUE]
    ELSE IF ~label.present
    THEN [label |-> label, raised |-> FALSE]
    ELSE [label |-> [present |-> TRUE,
                     text |-> <<VolText(m), IndexLookup(m.solution_type)>>],
          raised |-> FALSE]

update_volume_label(m, label) ==
    IF IndexRaises(m.solution_type)
    THEN [label |-> label, raised |-> TRUE]
    ELSE IF ~label.present
    THEN [label |-> label, raised |-> FALSE]
    ELSE [label |-> [present |-> TRUE,
                     text |-> <<VolText(m), IndexLookup(m.solution_type)>>],
          raised |-> FALSE]

(***************************************************************************)
(* RaytracingWidget._fillings_from_manifold                                *)
(***************************************************************************)
\* _fillings_from_manifold with the two components of a filling exchanged.
fillings_from_manifold_swapped(m) ==
    [i \in Cusps |-> <<m.fillings[i][2], m.fillings[i][1]>>]

fillings_from_manifold(m) ==
    [i \in Cusps |-> <<m.fillings[i][1], m.fillings[i][2]>>]

(***************************************************************************)
(* float(round(x)) of Python 3: round half to even.  x = h/2.              *)
(***************************************************************************)
PyRound(h) ==
    IF h % 2 = 0 THEN h \div 2
    ELSE LET f == (h - 1) \div 2
         IN  IF f % 2 = 0 THEN f ELSE f + 1

RoundedPair(p) == <<2 * PyRound(p[1]), 2 * PyRound(p[2])>>

round_all(f) == [i \in Cusps |-> RoundedPair(f[i])]

(***************************************************************************)
(* UniformDictController (gui_utilities): an edit is clamped to the        *)
(* binding's range and written to one component of one cusp.               *)
(***************************************************************************)
Clamp(v, lo, hi) == IF v < lo THEN lo ELSE IF v > hi THEN hi ELSE v

ClampFilling(v) == Clamp(v, 2 * FillingFrom, 2 * FillingTo)

set_value(f, i, k, v) ==
    [f EXCEPT ![i] = IF k = 0 THEN <<v, f[i][2]>> ELSE <<f[i][1], v>>]

(***************************************************************************)
(* The external engine.  dehn_fill and init_hyperbolic_structure may land  *)
(* in any solution type, with a defined or an undefined volume.            *)
(***************************************************************************)
SolutionCodes == 0 .. (Len(solution_type_text) - 1)

VolumeRaises == [raises |-> TRUE, value |-> 0]
VolumeIs(n) == [raises |-> FALSE, value |-> n]

\* Outcomes of a computation of the hyperbolic structure that the widget
\* model distinguishes: geometric and non-geometric with a volume,
\* degenerate and "not attempted" without one.
EngineOutcomes ==
    { [solution_type |-> 1, volume |-> VolumeIs(MaxVolume)],
      [solution_type |-> 2, volume |-> VolumeIs(MaxVolume)],
      [solution_type |-> 4, volume |-> VolumeRaises],
      [solution_type |-> 0, volume |-> VolumeRaises] }

(***************************************************************************)
(* _maximal_cusp_area(mfd).  Entries of the cusp area matrix are counted   *)
(* in 1/16 and are squares, so that math.sqrt is exact; the result is      *)
(* counted in 1/4 (5.0 is 20).  cusp_engine says whether the manifold has  *)
(* a cusp_area_matrix method, which call on the copy raises, and the       *)
(* diagonal of the 'trigDependent' matrix of the unfilled copy.  The       *)
(* result holds the returned value, the caller's manifold after the call,  *)
(* and the local copy.                                                     *)
(***************************************************************************)
Max(S) == CHOOSE x \in S : \A y \in S : y <= x

Sqrt(d) == CHOOSE k \in 0 .. d : k * k = d

CuspCalls == <<"copy", "dehn_fill", "init_hyperbolic_structure",
               "cusp_area_matrix">>

CallIndex(name) ==
    IF \E j \in 1 .. Len(CuspCalls) : CuspCalls[j] = name
    THEN CHOOSE j \in 1 .. Len(CuspCalls) : CuspCalls[j] = name
    ELSE Len(CuspCalls) + 1

\* TRUE iff the call named was made and returned.
Reached(e, name) == CallIndex(name) < CallIndex(e.raises_at)

\* _maximal_cusp_area whose try block covers cusp_area_matrix only.
maximal_cusp_area_narrow_try(m, e) ==
    [value |->
        IF ~e.has_cusp_area_matrix THEN 4 * FallbackArea
        ELSE IF e.raises_at = "cusp_area_matrix" THEN 4 * FallbackArea
        ELSE Sqrt(Max({e.diagonal[i] : i \in Cusps})),
     manifold |-> m,
     copy |-> m]

\* _maximal_cusp_area without mfd = mfd.copy(): the unfilling is applied to
\* the caller's manifold.
maximal_cusp_area_in_place(m, e) ==
    LET unfilled == [m EXCEPT !.fillings = [i \in Cusps |-> <<0, 0>>]]
        after == IF ~e.has_cusp_area_matrix \/ ~Reached(e, "dehn_fill")
                 THEN m
                 ELSE unfilled
    IN  [value |->
            IF ~e.has_cusp_area_matrix THEN 4 * FallbackArea
            ELSE IF e.raises_at # "none" THEN 4 * FallbackArea
            ELSE Sqrt(Max({e.diagonal[i] : i \in Cusps})),
         manifold |-> after,
         copy |-> after]

maximal_cusp_area(m, e) ==
    LET unfilled == [m EXCEPT !.fillings = [i \in Cusps |-> <<0, 0>>]]
        copy == IF ~e.has_cusp_area_matrix \/ ~Reached(e, "dehn_fill")
                THEN m
                ELSE unfilled
    IN  [value |->
            IF ~e.has_cusp_area_matrix THEN 4 * FallbackArea
            ELSE IF e.raises_at # "none" THEN 4 * FallbackArea
            ELSE Sqrt(Max({e.diagonal[i] : i \in Cusps})),
         manifold |-> m,
         copy |-> copy]

\* create_cusp_areas_frame: cusp_area_maximum = 1.05 * _maximal_cusp_area(...),
\* counted in 1/400, is the upper end of every 'Cusp i' slider.
cusp_area_maximum(m, e) == ScalePercent * maximal_cusp_area(m, e).value

(***************************************************************************)
(* Method bodies: the calls each method makes, in the order of its         *)
(* statements.  A frame of the call stack holds the method, the position   *)
(* in its body and the length of the log when it was entered.              *)
(***************************************************************************)
\* push_fillings_to_manifold notifying before it rebuilds and relabels.
push_fillings_to_manifold_body_hook_first ==
    << "dehn_fill", "fillings_changed_callback",
       "recompute_raytracing_data_and_redraw", "update_volume_label",
       "return" >>

push_fillings_to_manifold_body ==
    << "dehn_fill", "recompute_raytracing_data_and_redraw",
       "update_volume_label", "fillings_changed_callback", "return" >>

\* recompute_hyperbolic_structure pushing the fillings after the recompute.
recompute_hyperbolic_structure_body_pushing ==
    << "init_hyperbolic_structure", "dehn_fill",
       "recompute_raytracing_data_and_redraw", "update_volume_label",
       "fillings_changed_callback", "return" >>

recompute_hyperbolic_structure_body ==
    << "init_hyperbolic_structure", "recompute_raytracing_data_and_redraw",
       "update_volume_label", "fillings_changed_callback", "return" >>

\* pull_fillings_from_manifold notifying the owner as a push does.
pull_fillings_from_manifold_body_notifying ==
    << "fillings_from_manifold", "update_filling_sliders",
       "recompute_raytracing_data_and_redraw", "update_volume_label",
       "fillings_changed_callback", "return" >>

pull_fillings_from_manifold_body ==
    << "fillings_from_manifold", "update_filling_sliders",
       "recompute_raytracing_data_and_redraw", "update_volume_label",
       "return" >>

\* round_fillings forcing a recomputation before it pushes.
round_fillings_body_recomputing ==
    << "round", "update_filling_sliders", "init_hyperbolic_structure",
       "push_fillings_to_manifold", "return" >>

round_fillings_body ==
    << "round", "update_filling_sliders", "push_fillings_to_manifold",
       "return" >>

\* UniformDictController's handler of a slider move (gui_utilities): store
\* the clamped value, then call the binding's update_function.
scale_command_body == << "set_value", "push_fillings_to_manifold", "return" >>

\* The 'Cusp i' slider bound to redraw_if_initialized, as the sliders of
\* ui_uniform_dict are.
cusp_area_command_body_redraw_only ==
    << "redraw_if_initialized", "return" >>

\* What the sliders of ui_parameter_dict call once the edit is stored: their
\* update_function.
cusp_area_command_body ==
    << "recompute_raytracing_data_and_redraw", "return" >>

insphere_scale_command_body ==
    << "recompute_raytracing_data_and_redraw", "return" >>

edge_tube_radius_command_body ==
    << "redraw_if_initialized", "return" >>

Body(h) ==
    CASE h = "push_fillings_to_manifold" -> push_fillings_to_manifold_body
      [] h = "recompute_hyperbolic_structure" ->
             recompute_hyperbolic_structure_body
      [] h = "pull_fillings_from_manifold" -> pull_fillings_from_manifold_body
      [] h = "round_fillings" -> round_fillings_body
      [] h = "scale_command" -> scale_command_body
      [] h = "cusp_area_command" -> cusp_area_command_body
      [] h = "insphere_scale_command" -> insphere_scale_command_body
      [] h = "edge_tube_radius_command" -> edge_tube_radius_command_body
      [] h = "update_volume_label" -> << "update_volume_label", "return" >>
      [] h = "owner" -> << "pull_fillings_from_manifold", "return" >>
      [] h = "hook" -> << "return" >>
      [] h = "hook_pulling" -> << "pull_fillings_from_manifold", "return" >>
      [] h = "raised" -> << "report" >>

\* What the owner's fillings-changed hook may do.
HookKinds == {"hook", "hook_pulling"}

Idle == stack = <<>>
\* The Tk event loop is waiting: no handler and no timer callback is running
\* and the process has not exited.
EventLoop == stack = <<>> /\ perf.at = 0 /\ ~perf.exited
\* An event of the user or of the owner; none is tried once a performance
\* test has measured more than MaxTotalTime.
UserEvent == EventLoop /\ perf.total_time <= MaxTotalTime

\* PerfTest.report_time
report_time(p, t) == [p EXCEPT !.total_time = @ + t]

\* The view reports the time t of the frame it has drawn to its
\* report_time_callback, which is PerfTest.report_time once a PerfTest is
\* constructed on the view (and the FPS label before).
frame_drawn(p, t) == IF p.num_iterations = 0 THEN p ELSE report_time(p, t)
Top == stack[Len(stack)]
PcOf(fr) == Body(fr.h)[fr.at]
At(pc) == ~Idle /\ PcOf(Top) = pc
Enter(h) == [h |-> h, at |-> 1, base |-> Len(log)]
Advance == [stack EXCEPT ![Len(stack)].at = @ + 1]
Raise == << [h |-> "raised", at |-> 1, base |-> Top.base] >>

\* The parameters the view starts with, the raytracing data built from
\* them, and the image drawn with both.
DefaultParameters ==
    [cuspAreas |-> [i \in Cusps |-> 0], insphere_scale |-> 5,
     edgeTubeRadius |-> 0]

\* The raytracing data computed for the parameters p.
build_raytracing_data(p) == [built_from |-> p]

\* The image drawn from the raytracing data d with the parameters p.
draw(d, p) == [data |-> d, parameters |-> p]

DefaultView ==
    /\ ui_parameter_dict = DefaultParameters
    /\ raytracing_data = build_raytracing_data(DefaultParameters)
    /\ image = draw(build_raytracing_data(DefaultParameters),
                    DefaultParameters)

NoRequest == [cusp |-> 0, component |-> 0, value |-> 0]
\* What the engine answers to _maximal_cusp_area at the construction of the
\* widgets that are tried.
ConstructedEngines ==
    {[has_cusp_area_matrix |-> TRUE, raises_at |-> r,
      diagonal |-> [i \in Cusps |-> 4]] : r \in {"none"}}

\* The cusp areas frame that __init__ has created: one slider 'Cusp i' per
\* cusp, from 0.0 to cusp_area_maximum.
cusp_areas_frame(m, e) ==
    [i \in Cusps |-> [from |-> 0, to |-> cusp_area_maximum(m, e)]]
NoPerf ==
    [num_iterations |-> 0, current_iteration |-> 0, timers |-> 0, at |-> 0,
     total_time |-> 0, view_state |-> 0, redraws |-> 0, exited |-> FALSE,
     objects |-> << 0 >>, view_id |-> 1]

TypeOK ==
    /\ fillings_changed_callback \in BOOLEAN
    /\ dehn_fill_raises \in BOOLEAN
    /\ DOMAIN filling_dict = Cusps
    /\ DOMAIN mfd.fillings = Cusps

(***************************************************************************)
(* Init: the widget after RaytracingWidget.__init__, which reads the       *)
(* fillings from the manifold and ends with update_volume_label().         *)
(***************************************************************************)
Init ==
    /\ \E f \in [Cusps -> InitialPairs], e \in EngineOutcomes :
          /\ mfd = [fillings |-> f, solution_type |-> e.solution_type,
                    volume |-> e.volume]
          /\ filling_dict = fillings_from_manifold(mfd)
          /\ sliders = fillings_from_manifold(mfd)
          /\ vol_label =
                update_volume_label(mfd, [present |-> TRUE, text |-> <<>>]).label
    /\ fillings_changed_callback \in BOOLEAN
    /\ dehn_fill_raises \in BOOLEAN
    /\ stack = <<>>
    /\ log = <<>>
    /\ request = NoRequest
    /\ cusp_engine \in ConstructedEngines
    /\ cusp_scales = cusp_areas_frame(mfd, cusp_engine)
    /\ DefaultView
    /\ perf = NoPerf

(***************************************************************************)
(* Events, taken when no handler is running.                               *)
(***************************************************************************)

\* The user moves the filling slider of cusp i, component k, to v.
EditFilling(i, k, v) ==
    /\ UserEvent
    /\ request' = [cusp |-> i, component |-> k, value |-> v]
    /\ stack' = << Enter("scale_command") >>
    /\ UNCHANGED <<cuspVars, perfVars, paramVars,
                   mfd, filling_dict, sliders, vol_label,
                   fillings_changed_callback, log, dehn_fill_raises>>

\* Button "Recompute hyp. structure".
ClickRecompute ==
    /\ UserEvent
    /\ stack' = << Enter("recompute_hyperbolic_structure") >>
    /\ UNCHANGED <<cuspVars, perfVars, paramVars,
                   mfd, filling_dict, sliders, vol_label,
                   fillings_changed_callback, log, dehn_fill_raises, request>>

\* Button "Round to integers".
ClickRound ==
    /\ UserEvent
    /\ stack' = << Enter("round_fillings") >>
    /\ UNCHANGED <<cuspVars, perfVars, paramVars,
                   mfd, filling_dict, sliders, vol_label,
                   fillings_changed_callback, log, dehn_fill_raises, request>>

\* The owner of the widget calls pull_fillings_from_manifold.
CallPull ==
    /\ UserEvent
    /\ stack' = << Enter("pull_fillings_from_manifold") >>
    /\ UNCHANGED <<cuspVars, perfVars, paramVars,
                   mfd, filling_dict, sliders, vol_label,
                   fillings_changed_callback, log, dehn_fill_raises, request>>

\* The owner of the manifold fills cusp i itself and then tells the widget,
\* by calling pull_fillings_from_manifold.
OwnerDehnFill(i, p) ==
    /\ UserEvent
    /\ ~dehn_fill_raises
    /\ \E e \in EngineOutcomes :
          mfd' = [fillings |-> [mfd.fillings EXCEPT ![i] = p],
                  solution_type |-> e.solution_type, volume |-> e.volume]
    /\ stack' = << Enter("owner") >>
    /\ UNCHANGED <<cuspVars, perfVars, paramVars,
                   filling_dict, sliders, vol_label,
                   fillings_changed_callback, log, dehn_fill_raises, request>>

(***************************************************************************)
(* Steps of the running handler.                                           *)
(***************************************************************************)

\* UniformDictController: write the clamped value of the edit.
set_value_step ==
    /\ At("set_value")
    /\ filling_dict' = set_value(filling_dict, request.cusp,
                                 request.component, ClampFilling(request.value))
    /\ sliders' = set_value(sliders, request.cusp, request.component,
                            ClampFilling(request.value))
    /\ log' = Append(log, "set_value")
    /\ stack' = Advance
    /\ UNCHANGED <<cuspVars, perfVars, paramVars,
                   mfd, vol_label, fillings_changed_callback,
                   dehn_fill_raises, request>>

\* A call of self.push_fillings_to_manifold().
call_push_fillings_to_manifold ==
    /\ At("push_fillings_to_manifold")
    /\ stack' = Append(Advance, Enter("push_fillings_to_manifold"))
    /\ UNCHANGED <<cuspVars, perfVars, paramVars,
                   mfd, filling_dict, sliders, vol_label,
                   fillings_changed_callback, log, dehn_fill_raises, request>>

\* A call of pull_fillings_from_manifold().
call_pull_fillings_from_manifold ==
    /\ At("pull_fillings_from_manifold")
    /\ stack' = Append(Advance, Enter("pull_fillings_from_manifold"))
    /\ UNCHANGED <<cuspVars, perfVars, paramVars,
                   mfd, filling_dict, sliders, vol_label,
                   fillings_changed_callback, log, dehn_fill_raises, request>>

\* self.main_widget.manifold.dehn_fill(self.filling_dict['fillings'][1])
dehn_fill ==
    /\ At("dehn_fill")
    /\ \/ /\ ~dehn_fill_raises
          /\ \E e \in EngineOutcomes :
                mfd' = [fillings |-> filling_dict,
                        solution_type |-> e.solution_type,
                        volume |-> e.volume]
          /\ log' = Append(log, "dehn_fill")
          /\ stack' = Advance
       \/ /\ dehn_fill_raises
          /\ log' = Append(log, "dehn_fill raised")
          /\ stack' = Raise
          /\ UNCHANGED mfd
    /\ UNCHANGED <<cuspVars, perfVars, paramVars,
                   filling_dict, sliders, vol_label,
                   fillings_changed_callback, dehn_fill_raises, request>>

\* recompute_hyperbolic_structure with self.main_widget.reset_view_state()
\* in force: the view state is bound to a fresh initial matrix.
init_hyperbolic_structure_resetting ==
    /\ At("init_hyperbolic_structure")
    /\ \E e \in EngineOutcomes :
          mfd' = [mfd EXCEPT !.solution_type = e.solution_type,
                             !.volume = e.volume]
    /\ log' = Append(log, "init_hyperbolic_structure")
    /\ stack' = Advance
    /\ perf' = [perf EXCEPT !.objects = Append(@, 0),
                            !.view_id = Len(perf.objects) + 1,
                            !.view_state = 0]
    /\ UNCHANGED <<cuspVars, paramVars,
                   filling_dict, sliders, vol_label,
                   fillings_changed_callback, dehn_fill_raises, request>>

\* self.main_widget.manifold.init_hyperbolic_structure(force_recompute = True)
init_hyperbolic_structure ==
    /\ At("init_hyperbolic_structure")
    /\ \E e \in EngineOutcomes :
          mfd' = [mfd EXCEPT !.solution_type = e.solution_type,
                             !.volume = e.volume]
    /\ log' = Append(log, "init_hyperbolic_structure")
    /\ stack' = Advance
    /\ UNCHANGED <<cuspVars, perfVars, paramVars,
                   filling_dict, sliders, vol_label,
                   fillings_changed_callback, dehn_fill_raises, request>>

\* self.main_widget.recompute_raytracing_data_and_redraw()
recompute_raytracing_data_and_redraw ==
    /\ At("recompute_raytracing_data_and_redraw")
    /\ raytracing_data' = build_raytracing_data(ui_parameter_dict)
    /\ image' = draw(raytracing_data', ui_parameter_dict)
    /\ \E t \in 1 .. MaxFrameTime : perf' = frame_drawn(perf, t)
    /\ log' = Append(log, "recompute_raytracing_data_and_redraw")
    /\ stack' = Advance
    /\ UNCHANGED <<cuspVars, ui_parameter_dict,
                   mfd, filling_dict, sliders, vol_label,
                   fillings_changed_callback, dehn_fill_raises, request>>

\* self.update_volume_label()
update_volume_label_step ==
    /\ At("update_volume_label")
    /\ vol_label' = update_volume_label(mfd, vol_label).label
    /\ IF update_volume_label(mfd, vol_label).raised
       THEN /\ log' = Append(log, "update_volume_label raised")
            /\ stack' = Raise
       ELSE /\ log' = Append(log, "update_volume_label")
            /\ stack' = Advance
    /\ UNCHANGED <<cuspVars, perfVars, paramVars,
                   mfd, filling_dict, sliders,
                   fillings_changed_callback, dehn_fill_raises, request>>

\* if self.fillings_changed_callback: self.fillings_changed_callback()
callback ==
    /\ At("fillings_changed_callback")
    /\ IF fillings_changed_callback
       THEN /\ log' = Append(log, "fillings_changed_callback")
            /\ \E h \in HookKinds :
                  stack' = Append(Advance,
                                  [h |-> h, at |-> 1, base |-> Len(log) + 1])
       ELSE /\ log' = log
            /\ stack' = Advance
    /\ UNCHANGED <<cuspVars, perfVars, paramVars,
                   mfd, filling_dict, sliders, vol_label,
                   fillings_changed_callback, dehn_fill_raises, request>>

\* self.filling_dict['fillings'] = self._fillings_from_manifold()
pull_assign ==
    /\ At("fillings_from_manifold")
    /\ filling_dict' = fillings_from_manifold(mfd)
    /\ log' = Append(log, "fillings_from_manifold")
    /\ stack' = Advance
    /\ UNCHANGED <<cuspVars, perfVars, paramVars,
                   mfd, sliders, vol_label,
                   fillings_changed_callback, dehn_fill_raises, request>>

\* round_fillings: f[i] = float(round(f[i])) for every cusp and component
round_write ==
    /\ At("round")
    /\ filling_dict' = round_all(filling_dict)
    /\ log' = Append(log, "round")
    /\ stack' = Advance
    /\ UNCHANGED <<cuspVars, perfVars, paramVars,
                   mfd, sliders, vol_label,
                   fillings_changed_callback, dehn_fill_raises, request>>

\* UniformDictController.update (gui_utilities), run for every filling
\* controller: the displayed value is refreshed from the stored one and no
\* update_function is called.
controller_update(shown, stored) == stored

update_filling_sliders ==
    /\ At("update_filling_sliders")
    /\ sliders' = controller_update(sliders, filling_dict)
    /\ log' = Append(log, "update_filling_sliders")
    /\ stack' = Advance
    /\ UNCHANGED <<cuspVars, perfVars, paramVars,
                   mfd, filling_dict, vol_label,
                   fillings_changed_callback, dehn_fill_raises, request>>

\* The running method returns to its caller; the handler returns to the
\* event loop (Idle) when the last frame is popped.
return ==
    /\ At("return")
    /\ stack' = SubSeq(stack, 1, Len(stack) - 1)
    /\ log' = IF Len(stack) = 1 THEN <<>> ELSE log
    /\ request' = IF Len(stack) = 1 THEN NoRequest ELSE request
    /\ UNCHANGED <<cuspVars, perfVars, paramVars,
                   mfd, filling_dict, sliders, vol_label,
                   fillings_changed_callback, dehn_fill_raises>>

\* An exception that left the handler is reported by the event loop.
report_exception ==
    /\ At("report")
    /\ stack' = <<>>
    /\ log' = <<>>
    /\ request' = NoRequest
    /\ UNCHANGED <<cuspVars, perfVars, paramVars,
                   mfd, filling_dict, sliders, vol_label,
                   fillings_changed_callback, dehn_fill_raises>>

Next ==
    \/ \E i \in Cusps, k \in Components, v \in Requests : EditFilling(i, k, v)
    \/ ClickRecompute
    \/ ClickRound
    \/ CallPull
    \/ \E i \in Cusps, p \in ExternalPairs : OwnerDehnFill(i, p)
    \/ set_value_step
    \/ call_push_fillings_to_manifold
    \/ call_pull_fillings_from_manifold
    \/ dehn_fill
    \/ init_hyperbolic_structure
    \/ recompute_raytracing_data_and_redraw
    \/ update_volume_label_step
    \/ callback
    \/ pull_assign
    \/ round_write
    \/ update_filling_sliders
    \/ return
    \/ report_exception

Spec == Init /\ [][Next]_vars

(***************************************************************************)
(* The volume label alone: update_volume_label of a fresh label, for any   *)
(* status code and volume the engine may answer with.                      *)
(***************************************************************************)
LabelCodes ==
    (0 - Len(solution_type_text) - 2) .. (Len(solution_type_text) + 1)

LabelVolumes == {VolumeRaises} \cup {VolumeIs(n) : n \in 0 .. MaxVolume}

LabelInit ==
    /\ \E c \in LabelCodes, v \in LabelVolumes :
          mfd = [fillings |-> [i \in Cusps |-> <<0, 0>>],
                 solution_type |-> c, volume |-> v]
    /\ filling_dict = fillings_from_manifold(mfd)
    /\ sliders = fillings_from_manifold(mfd)
    /\ \E b \in BOOLEAN : vol_label = [present |-> b, text |-> <<>>]
    /\ fillings_changed_callback = FALSE
    /\ dehn_fill_raises = FALSE
    /\ stack = <<>>
    /\ log = <<>>
    /\ request = NoRequest
    /\ cusp_engine \in ConstructedEngines
    /\ cusp_scales = cusp_areas_frame(mfd, cusp_engine)
    /\ DefaultView
    /\ perf = NoPerf

CallUpdateVolumeLabel ==
    /\ Idle
    /\ stack' = << Enter("update_volume_label") >>
    /\ UNCHANGED <<cuspVars, perfVars, paramVars, mfd, filling_dict, sliders, vol_label,
                   fillings_changed_callback, log, dehn_fill_raises, request>>

LabelNext ==
    \/ CallUpdateVolumeLabel
    \/ update_volume_label_step
    \/ return
    \/ report_exception

SpecLabel == LabelInit /\ [][LabelNext]_vars

(***************************************************************************)
(* The cusp areas frame: create_cusp_areas_frame, once, at construction.   *)
(***************************************************************************)
CuspEngines ==
    [has_cusp_area_matrix : BOOLEAN,
     raises_at : {"none"} \cup {CuspCalls[j] : j \in 1 .. Len(CuspCalls)},
     diagonal : [Cusps -> {k * k : k \in 1 .. MaxRoot}]]

CuspInit ==
    /\ \E f \in [Cusps -> InitialPairs], e \in EngineOutcomes :
          mfd = [fillings |-> f, solution_type |-> e.solution_type,
                 volume |-> e.volume]
    /\ filling_dict = fillings_from_manifold(mfd)
    /\ sliders = fillings_from_manifold(mfd)
    /\ vol_label = [present |-> FALSE, text |-> <<>>]
    /\ fillings_changed_callback = FALSE
    /\ dehn_fill_raises = FALSE
    /\ stack = <<>>
    /\ log = <<>>
    /\ request = NoRequest
    /\ cusp_engine \in CuspEngines
    /\ cusp_scales = <<>>
    /\ DefaultView
    /\ perf = NoPerf

create_cusp_areas_frame ==
    /\ cusp_scales = <<>>
    /\ cusp_scales' = cusp_areas_frame(mfd, cusp_engine)
    /\ mfd' = maximal_cusp_area(mfd, cusp_engine).manifold
    /\ UNCHANGED <<filling_dict, sliders, vol_label,
                   fillings_changed_callback, stack, log, dehn_fill_raises,
                   request, cusp_engine, perfVars, paramVars>>

CuspNext == create_cusp_areas_frame

SpecCusp == CuspInit /\ [][CuspNext]_vars

(***************************************************************************)
(* PerfTest: a timer tick runs redraw, which schedules the next tick.      *)
(* perf.at is the position in the body of redraw, 0 between ticks.         *)
(***************************************************************************)
\* PerfTest.redraw scheduling the next tick before it updates and redraws.
PerfTest_redraw_body_after_first ==
    << "increment", "after", "update_view_state", "redraw_if_initialized",
       "return" >>

PerfTest_redraw_body ==
    << "increment", "update_view_state", "redraw_if_initialized", "after",
       "return" >>

PerfAt(pc) ==
    /\ perf.at # 0
    /\ PerfTest_redraw_body[perf.at] = pc

\* The matrix objects of the view: objects[k] is the value of object k (the
\* number of translations m composed into it), and view_id is the object
\* self.widget.view_state is bound to.  raytracing_data.update_view_state
\* returns a new matrix and leaves its arguments as they were.
update_view_state(objects, id) ==
    [objects |-> Append(objects, objects[id] + 1), id |-> Len(objects) + 1]

\* The PerfTest object after __init__ has scheduled the first tick.
PerfTest_init(n) ==
    [num_iterations |-> n, current_iteration |-> 0,
     timers |-> 1, at |-> 0, total_time |-> 0,
     view_state |-> 0, redraws |-> 0, exited |-> FALSE,
     objects |-> << 0 >>, view_id |-> 1]

\* PerfTest.__init__ up to self.widget.after(250, self.redraw); mainloop().
PerfInit ==
    /\ \E f \in [Cusps -> InitialPairs], e \in EngineOutcomes :
          mfd = [fillings |-> f, solution_type |-> e.solution_type,
                 volume |-> e.volume]
    /\ filling_dict = fillings_from_manifold(mfd)
    /\ sliders = fillings_from_manifold(mfd)
    /\ vol_label =
          update_volume_label(mfd, [present |-> TRUE, text |-> <<>>]).label
    /\ fillings_changed_callback = FALSE
    /\ dehn_fill_raises = FALSE
    /\ stack = <<>>
    /\ log = <<>>
    /\ request = NoRequest
    /\ cusp_engine \in ConstructedEngines
    /\ cusp_scales = cusp_areas_frame(mfd, cusp_engine)
    /\ DefaultView
    /\ \E n \in 1 .. MaxIterations :
          perf = PerfTest_init(n)

\* The event loop runs the pending timer callback, which is then no longer
\* pending.
timer_fires ==
    /\ EventLoop
    /\ perf.timers > 0
    /\ perf' = [perf EXCEPT !.timers = @ - 1, !.at = 1]
    /\ UNCHANGED <<widgetVars, cuspVars, paramVars>>

\* self.current_iteration += 1; the last iteration prints and sys.exit(0).
perf_increment ==
    /\ PerfAt("increment")
    /\ perf' = IF perf.current_iteration + 1 = perf.num_iterations
               THEN [perf EXCEPT !.current_iteration = @ + 1,
                                 !.exited = TRUE, !.at = 0]
               ELSE [perf EXCEPT !.current_iteration = @ + 1, !.at = @ + 1]
    /\ UNCHANGED <<widgetVars, cuspVars, paramVars>>

\* self.widget.view_state = raytracing_data.update_view_state(view_state, m);
\* view_state counts the translations m composed into it; the attribute is
\* bound to the matrix that update_view_state returns.
perf_update_view_state ==
    /\ PerfAt("update_view_state")
    /\ LET r == update_view_state(perf.objects, perf.view_id)
       IN  perf' = [perf EXCEPT !.objects = r.objects, !.view_id = r.id,
                                !.view_state = r.objects[r.id], !.at = @ + 1]
    /\ UNCHANGED <<widgetVars, cuspVars, paramVars>>

\* self.widget.redraw_if_initialized(); the view reports the frame time to
\* report_time, which adds it to total_time.
perf_redraw_if_initialized ==
    /\ PerfAt("redraw_if_initialized")
    /\ \E t \in 1 .. MaxFrameTime :
          perf' = [frame_drawn(perf, t) EXCEPT !.redraws = @ + 1,
                                               !.at = @ + 1]
    /\ image' = draw(raytracing_data, ui_parameter_dict)
    /\ UNCHANGED <<widgetVars, cuspVars, ui_parameter_dict, raytracing_data>>

\* self.widget.after(250, self.redraw)
perf_after ==
    /\ PerfAt("after")
    /\ perf' = [perf EXCEPT !.timers = @ + 1, !.at = @ + 1]
    /\ UNCHANGED <<widgetVars, cuspVars, paramVars>>

perf_return ==
    /\ PerfAt("return")
    /\ perf' = [perf EXCEPT !.at = 0]
    /\ UNCHANGED <<widgetVars, cuspVars, paramVars>>

PerfNext ==
    \/ timer_fires
    \/ perf_increment
    \/ perf_update_view_state
    \/ perf_redraw_if_initialized
    \/ perf_after
    \/ perf_return

SpecPerf == PerfInit /\ [][PerfNext]_vars

(***************************************************************************)
(* The sliders of ui_parameter_dict: 'Cusp i' (cuspAreas, counted in       *)
(* 1/400), 'Insphere scale' and 'Edge thickness' (insphere_scale and       *)
(* edgeTubeRadius, counted in 1/100).  The controller stores the edit,     *)
(* clamped to the range of the slider, and calls its update_function.      *)
(***************************************************************************)
ParameterRequests == {-10, 30, 3000}

ParameterSamples ==
    [cuspAreas : [Cusps -> {0, 40}], insphere_scale : {5},
     edgeTubeRadius : {0}]

ParameterEngines ==
    {e \in CuspEngines :
        /\ e.has_cusp_area_matrix
        /\ e.raises_at \in {"none", "cusp_area_matrix"}
        /\ \A i \in Cusps : e.diagonal[i] = 4}

\* The widget after construction, the cusp areas frame included.
ParameterInit ==
    /\ \E e \in EngineOutcomes :
          mfd = [fillings |-> [i \in Cusps |-> <<0, 0>>],
                 solution_type |-> e.solution_type, volume |-> e.volume]
    /\ filling_dict = fillings_from_manifold(mfd)
    /\ sliders = fillings_from_manifold(mfd)
    /\ vol_label =
          update_volume_label(mfd, [present |-> TRUE, text |-> <<>>]).label
    /\ fillings_changed_callback = FALSE
    /\ dehn_fill_raises = FALSE
    /\ stack = <<>>
    /\ log = <<>>
    /\ request = NoRequest
    /\ cusp_engine \in ParameterEngines
    /\ cusp_scales = cusp_areas_frame(mfd, cusp_engine)
    /\ perf = NoPerf
    /\ ui_parameter_dict \in ParameterSamples
    /\ raytracing_data = build_raytracing_data(ui_parameter_dict)
    /\ image = draw(raytracing_data, ui_parameter_dict)

\* The user moves the slider 'Cusp i' to v.
EditCuspArea(i, v) ==
    /\ UserEvent
    /\ cusp_scales # <<>>
    /\ ui_parameter_dict' =
          [ui_parameter_dict EXCEPT
              !.cuspAreas[i] = Clamp(v, cusp_scales[i].from, cusp_scales[i].to)]
    /\ log' = << "set_value" >>
    /\ stack' = << [h |-> "cusp_area_command", at |-> 1, base |-> 0] >>
    /\ UNCHANGED <<cuspVars, perfVars, raytracing_data, image,
                   mfd, filling_dict, sliders, vol_label,
                   fillings_changed_callback, dehn_fill_raises, request>>

\* The user moves the slider 'Insphere scale' to v.
EditInsphereScale(v) ==
    /\ UserEvent
    /\ ui_parameter_dict' =
          [ui_parameter_dict EXCEPT
              !.insphere_scale = Clamp(v, 0, InsphereScaleTo)]
    /\ log' = << "set_value" >>
    /\ stack' = << [h |-> "insphere_scale_command", at |-> 1, base |-> 0] >>
    /\ UNCHANGED <<cuspVars, perfVars, raytracing_data, image,
                   mfd, filling_dict, sliders, vol_label,
                   fillings_changed_callback, dehn_fill_raises, request>>

\* The user moves the slider 'Edge thickness' to v.
EditEdgeTubeRadius(v) ==
    /\ UserEvent
    /\ ui_parameter_dict' =
          [ui_parameter_dict EXCEPT
              !.edgeTubeRadius = Clamp(v, 0, EdgeTubeRadiusTo)]
    /\ log' = << "set_value" >>
    /\ stack' = << [h |-> "edge_tube_radius_command", at |-> 1, base |-> 0] >>
    /\ UNCHANGED <<cuspVars, perfVars, raytracing_data, image,
                   mfd, filling_dict, sliders, vol_label,
                   fillings_changed_callback, dehn_fill_raises, request>>

\* self.main_widget.redraw_if_initialized()
redraw_if_initialized ==
    /\ At("redraw_if_initialized")
    /\ image' = draw(raytracing_data, ui_parameter_dict)
    /\ \E t \in 1 .. MaxFrameTime : perf' = frame_drawn(perf, t)
    /\ log' = Append(log, "redraw_if_initialized")
    /\ stack' = Advance
    /\ UNCHANGED <<cuspVars, ui_parameter_dict, raytracing_data,
                   mfd, filling_dict, sliders, vol_label,
                   fillings_changed_callback, dehn_fill_raises, request>>

ParameterNext ==
    \/ \E i \in Cusps, v \in ParameterRequests : EditCuspArea(i, v)
    \/ \E v \in ParameterRequests : EditInsphereScale(v)
    \/ \E v \in ParameterRequests : EditEdgeTubeRadius(v)
    \/ recompute_raytracing_data_and_redraw
    \/ redraw_if_initialized
    \/ return

SpecParameter == ParameterInit /\ [][ParameterNext]_vars

(***************************************************************************)
(* A RaytracingWidget and a PerfTest on its main widget, in one event      *)
(* loop, as run_perf_test sets them up.  Timer ticks update the view       *)
(* state; between ticks the user and the owner use the widget.             *)
(***************************************************************************)
\* The edits and the lengths of the performance test that are tried.
ViewRequests == {1}
ViewIterations == {3, 20}

ViewInit ==
    /\ \E f \in [Cusps -> InitialPairs], e \in EngineOutcomes :
          /\ mfd = [fillings |-> f,
                    solution_type |-> e.solution_type, volume |-> e.volume]
          /\ filling_dict = fillings_from_manifold(mfd)
          /\ sliders = fillings_from_manifold(mfd)
          /\ vol_label =
                update_volume_label(mfd, [present |-> TRUE, text |-> <<>>]).label
    /\ fillings_changed_callback \in BOOLEAN
    /\ dehn_fill_raises \in BOOLEAN
    /\ stack = <<>>
    /\ log = <<>>
    /\ request = NoRequest
    /\ cusp_engine \in ConstructedEngines
    /\ cusp_scales = cusp_areas_frame(mfd, cusp_engine)
    /\ DefaultView
    /\ \E n \in ViewIterations : perf = PerfTest_init(n)

ViewNext ==
    \/ \E v \in ViewRequests : EditFilling(0, 0, v)
    \/ ClickRecompute
    \/ ClickRound
    \/ CallPull
    \/ \E p \in ExternalPairs : OwnerDehnFill(0, p)
    \/ set_value_step
    \/ call_push_fillings_to_manifold
    \/ call_pull_fillings_from_manifold
    \/ dehn_fill
    \/ init_hyperbolic_structure
    \/ recompute_raytracing_data_and_redraw
    \/ update_volume_label_step
    \/ callback
    \/ pull_assign
    \/ round_write
    \/ update_filling_sliders
    \/ return
    \/ report_exception
    \/ timer_fires
    \/ perf_increment
    \/ perf_update_view_state
    \/ perf_redraw_if_initialized
    \/ perf_after
    \/ perf_return

SpecView == ViewInit /\ [][ViewNext]_vars

(***************************************************************************)
(* Properties.                                                             *)
(***************************************************************************)
Count(seq, e) == Cardinality({n \in 1 .. Len(seq) : seq[n] = e})

IsPrefix(a, b) == Len(a) <= Len(b) /\ \A n \in 1 .. Len(a) : a[n] = b[n]

FirstN(seq, n) == SubSeq(seq, 1, IF n < Len(seq) THEN n ELSE Len(seq))

\* The calls logged since frame j of the stack was entered.
Own(j) == SubSeq(log, stack[j].base + 1, Len(log))

HookCall ==
    IF fillings_changed_callback
    THEN << "fillings_changed_callback" >>
    ELSE << >>

\* Every frame of method h has made its first calls in the order `expected`
\* and has made them all when it is about to return.
RunsInOrder(h, expected) ==
    \A j \in 1 .. Len(stack) :
        stack[j].h = h =>
            /\ IsPrefix(FirstN(Own(j), Len(expected)), expected)
            /\ (j = Len(stack) /\ PcOf(stack[j]) = "return")
                  => Len(Own(j)) >= Len(expected)

SameFillings ==
    \A i \in Cusps, k \in 1 .. 2 : filling_dict[i][k] = mfd.fillings[i][k]

\* C1: a push that succeeds calls dehn_fill, then rebuilds and redraws, then
\* refreshes the volume label, then invokes the fillings-changed hook once
\* if one is set, in this order, before it returns; a push whose dehn_fill
\* raises makes no later call.
C1_PushOrder ==
    /\ RunsInOrder("push_fillings_to_manifold",
                   << "dehn_fill", "recompute_raytracing_data_and_redraw",
                      "update_volume_label" >> \o HookCall)
    /\ \A j \in 1 .. Len(stack) :
          stack[j].h = "push_fillings_to_manifold" =>
             /\ Count(Own(j), "dehn_fill") <= 1
             /\ Count(Own(j), "fillings_changed_callback") <= Len(HookCall)
    /\ At("report") => Own(Len(stack)) = << "dehn_fill raised" >>

C1_Witness ==
    /\ At("return")
    /\ Top.h = "push_fillings_to_manifold"
    /\ fillings_changed_callback
    /\ Own(Len(stack)) =
          << "dehn_fill", "recompute_raytracing_data_and_redraw",
             "update_volume_label", "fillings_changed_callback" >>

\* C2 as claimed: a structure recompute forces the recomputation and then
\* performs the steps of the filling-edit path, the push (dehn_fill)
\* included.
C2_AsClaimed ==
    RunsInOrder("recompute_hyperbolic_structure",
                << "init_hyperbolic_structure", "dehn_fill",
                   "recompute_raytracing_data_and_redraw",
                   "update_volume_label" >> \o HookCall)

\* C2 as amended: a structure recompute forces the recomputation, then
\* rebuilds and redraws, refreshes the volume label and invokes the hook if
\* one is set, in this order, whatever solution type the recomputation
\* lands in; it never calls dehn_fill.
C2_RecomputeOrder ==
    /\ RunsInOrder("recompute_hyperbolic_structure",
                   << "init_hyperbolic_structure",
                      "recompute_raytracing_data_and_redraw",
                      "update_volume_label" >> \o HookCall)
    /\ \A j \in 1 .. Len(stack) :
          stack[j].h = "recompute_hyperbolic_structure" =>
             /\ Count(Own(j), "dehn_fill") = 0
             /\ Count(Own(j), "init_hyperbolic_structure") <= 1
             /\ Count(Own(j), "fillings_changed_callback") <= Len(HookCall)

C2_Witness ==
    /\ At("return")
    /\ Top.h = "recompute_hyperbolic_structure"
    /\ mfd.solution_type = 4
    /\ fillings_changed_callback
    /\ Len(Own(Len(stack))) >= 4

\* C3 as claimed: in a "Round to integers" request the engine is forced to
\* recompute the structure between the write of the rounded fillings and
\* the rebuild of the raytracing data.
C3_AsClaimed ==
    \A j \in 1 .. Len(stack) :
        stack[j].h = "round_fillings" =>
            \A n \in 1 .. Len(Own(j)) :
                Own(j)[n] = "recompute_raytracing_data_and_redraw" =>
                    \E r \in 1 .. n : \E f \in r .. n :
                        /\ Own(j)[r] = "round"
                        /\ Own(j)[f] = "init_hyperbolic_structure"

\* C3 as amended: a "Round to integers" request is a filling edit: it
\* writes the rounded fillings, refreshes the sliders and then runs the
\* push (dehn_fill, rebuild and redraw, label, hook); it never calls
\* init_hyperbolic_structure.
C3_RoundIsFillingEdit ==
    /\ RunsInOrder("round_fillings",
                   << "round", "update_filling_sliders", "dehn_fill",
                      "recompute_raytracing_data_and_redraw",
                      "update_volume_label" >> \o HookCall)
    /\ \A j \in 1 .. Len(stack) :
          stack[j].h = "round_fillings" =>
             Count(Own(j), "init_hyperbolic_structure") = 0

C3_Witness ==
    /\ At("return")
    /\ Top.h = "round_fillings"
    /\ Count(log, "round") = 1
    /\ Count(log, "dehn_fill") = 1
    /\ Count(log, "recompute_raytracing_data_and_redraw") >= 1

\* C4: a pull (and the slider refresh it runs) never pushes to the manifold,
\* never invokes the fillings-changed hook and calls no other method, so a
\* hook that pulls ends the nesting: the call stack and the number of calls
\* of one event are bounded.
C4_PullNeverWrites ==
    /\ \A j \in 1 .. Len(stack) :
          stack[j].h = "pull_fillings_from_manifold" =>
             /\ j = Len(stack)
             /\ Count(Own(j), "dehn_fill") = 0
             /\ Count(Own(j), "dehn_fill raised") = 0
             /\ Count(Own(j), "set_value") = 0
             /\ Count(Own(j), "fillings_changed_callback") = 0
    /\ Len(stack) <= 4
    /\ Len(log) <= 10
    /\ Count(log, "dehn_fill") <= 1

C4_Witness ==
    /\ At("return")
    /\ Top.h = "pull_fillings_from_manifold"
    /\ Len(stack) = 4
    /\ stack[1].h = "scale_command"
    /\ stack[3].h = "hook_pulling"
    /\ Count(log, "update_filling_sliders") = 1

\* The fillings of every cusp lie in [-15, 15] (in halves, [-30, 30]).
FillingsInRange(f) ==
    \A i \in Cusps, k \in 1 .. 2 : f[i][k] >= -30 /\ f[i][k] <= 30

\* One step of an edit: the stored value is the clamped request.
C8_Step ==
    /\ At("set_value") =>
          LET v == request.value
              stored == filling_dict'[request.cusp][request.component + 1]
          IN  /\ v > 30 => stored = 30
              /\ v < -30 => stored = -30
              /\ (v >= -30 /\ v <= 30) => stored = v
              /\ stack' # <<>>
              /\ stack'[Len(stack')].h # "raised"
    /\ (FillingsInRange(filling_dict) /\ ~At("fillings_from_manifold"))
          => FillingsInRange(filling_dict')

\* C8: a slider edit stores the request clamped to [-15, 15] (in halves,
\* [-30, 30]) and raises nothing; no step other than a pull from the
\* manifold takes fillings that lie in the range out of it.
C8_ClampedEdits == [][C8_Step]_vars

C8_Witness ==
    /\ ~Idle
    /\ stack[1].h = "scale_command"
    /\ Len(log) >= 1
    /\ request.value = 40
    /\ filling_dict[request.cusp][request.component + 1] = 30

\* C9: whenever a push, a pull, a rounding or an edit is about to return,
\* the widget's filling list equals the manifold's fillings, cusp by cusp
\* and component by component; so does it between events unless a push
\* failed.
C9_RoundTrip ==
    /\ (At("return") /\ Top.h \in {"push_fillings_to_manifold",
                                    "pull_fillings_from_manifold",
                                    "round_fillings", "scale_command"})
          => SameFillings
    /\ (\E j \in 1 .. Len(stack) :
           /\ stack[j].h = "pull_fillings_from_manifold"
           /\ stack[j].at > 1) => SameFillings
    /\ (Idle /\ ~dehn_fill_raises) => SameFillings

C9_Witness ==
    /\ At("return")
    /\ Top.h = "pull_fillings_from_manifold"
    /\ \E j \in 1 .. Len(stack) : stack[j].h = "push_fillings_to_manifold"
    /\ filling_dict[0][1] # filling_dict[0][2]
    /\ filling_dict[0][1] # 0
    /\ SameFillings

\* The category text the specification gives for a status code.
ClaimedSolutionText(code) ==
    CASE code = 0 -> "degenerate"
      [] code = 1 -> "geometric"
      [] code = 2 -> "non-geometric"
      [] code = 3 -> "flat"
      [] code = 4 -> "degenerate"
      [] code = 5 -> "degenerate"
      [] code = 6 -> "degenerate"

\* C5 as claimed: the solution-type text shown is the table entry of the
\* status code for the codes 0 .. 6, and a code outside 0 .. 6 is never
\* rendered as one of the category texts.  (The label starts without text.)
C5_AsClaimed ==
    IF mfd.solution_type \in 0 .. 6
    THEN vol_label.text # <<>> =>
            vol_label.text[2] = ClaimedSolutionText(mfd.solution_type)
    ELSE vol_label.text = <<>>

\* C6: with a status code of the table (0 .. 6), update_volume_label raises
\* nothing, also when volume() raises; the label then shows "-" for a
\* volume that raised and otherwise the volume rounded to the nearest
\* thousandth, and one of the four category texts.
C6_VolumeText ==
    /\ At("report") => mfd.solution_type \notin 0 .. 6
    /\ (At("return") /\ Top.h = "update_volume_label" /\ vol_label.present)
          => /\ Len(vol_label.text) = 2
             /\ vol_label.text[2] \in
                   {"geometric", "non-geometric", "flat", "degenerate"}
             /\ mfd.volume.raises => vol_label.text[1] = DashText
             /\ ~mfd.volume.raises =>
                   LET t == vol_label.text[1]
                       shown == 1000 * t.whole + t.frac
                   IN  /\ ~t.dash
                       /\ t.frac \in 0 .. 999
                       /\ 4 * shown - 125 * mfd.volume.value \in -2 .. 2

C6_Witness ==
    /\ At("return")
    /\ Top.h = "update_volume_label"
    /\ mfd.volume.raises
    /\ mfd.solution_type = 4
    /\ vol_label.present
    /\ vol_label.text = <<DashText, "degenerate">>

\* C7 as claimed: when a step of the heuristic raises, the upper end of
\* every 'Cusp i' slider is exactly 5.0 (2000 in 1/400).
C7_AsClaimed ==
    (cusp_scales # <<>> /\ cusp_engine.has_cusp_area_matrix
        /\ cusp_engine.raises_at # "none")
       => \A i \in Cusps : cusp_scales[i].to = 2000

\* C7 as amended: when a step of the heuristic raises, _maximal_cusp_area
\* returns exactly 5.0 (20 in 1/4) and the upper end of every 'Cusp i'
\* slider is 1.05 * 5.0 = 5.25 (2100 in 1/400); when no step raises, the
\* upper end is 1.05 * sqrt(largest diagonal entry).
C7_Fallback ==
    cusp_scales # <<>> =>
       \A i \in Cusps :
          /\ cusp_scales[i].from = 0
          /\ (cusp_engine.has_cusp_area_matrix
                 /\ cusp_engine.raises_at # "none")
                => /\ maximal_cusp_area(mfd, cusp_engine).value = 20
                   /\ cusp_scales[i].to = 2100
          /\ (cusp_engine.has_cusp_area_matrix
                 /\ cusp_engine.raises_at = "none")
                => LET root == cusp_scales[i].to \div 105
                   IN  /\ cusp_scales[i].to = 105 * root
                       /\ \E c \in Cusps : cusp_engine.diagonal[c] = root * root
                       /\ \A c \in Cusps : cusp_engine.diagonal[c] <= root * root

C7_Witness ==
    /\ cusp_scales # <<>>
    /\ cusp_engine.has_cusp_area_matrix
    /\ cusp_engine.raises_at = "dehn_fill"
    /\ cusp_scales[0].to = 2100

\* C10: at most one timer tick is pending; none is pending while a tick
\* is still to update the view state, redraw or schedule; every tick that
\* has scheduled the next one has updated the view state and redrawn; after
\* the tick that exits no tick is pending.
C10_TicksDoNotOverlap ==
    /\ perf.timers \in {0, 1}
    /\ (perf.at # 0 /\ ~PerfAt("return")) => perf.timers = 0
    /\ perf.timers = 1 =>
          /\ perf.view_state = perf.current_iteration
          /\ perf.redraws = perf.current_iteration
    /\ perf.exited =>
          /\ perf.timers = 0
          /\ perf.at = 0
          /\ perf.current_iteration = perf.num_iterations

C10_Witness ==
    /\ perf.exited
    /\ perf.num_iterations >= 3
    /\ perf.redraws = perf.num_iterations - 1
    /\ perf.view_state = perf.num_iterations - 1

\* C14: the step that computes the cusp-area slider bound leaves the
\* manifold of the widget as it was, fillings and hyperbolic structure
\* (solution type, volume) included, whether _maximal_cusp_area succeeds
\* or falls back; the unfilling to (0,0) is applied to the copy only.
C14_ManifoldUnchanged ==
    [][(cusp_scales = <<>> /\ cusp_scales' # <<>>) => mfd' = mfd]_vars

C14_Witness ==
    /\ cusp_scales # <<>>
    /\ cusp_engine.has_cusp_area_matrix
    /\ cusp_engine.raises_at = "none"
    /\ mfd.fillings[0] = <<2, 4>>
    /\ maximal_cusp_area(mfd, cusp_engine).copy.fillings[0] = <<0, 0>>

\* C12: no step of a filling edit, a pull, a rounding, a structure
\* recomputation or a label refresh changes the view state or the matrix it
\* is bound to; the update of PerfTest.redraw binds the view state to a new
\* matrix, the previous one composed with one more translation, and leaves
\* every matrix that existed before as it was.
C12_Step ==
    /\ ~PerfAt("update_view_state") =>
          /\ perf'.view_state = perf.view_state
          /\ perf'.view_id = perf.view_id
          /\ perf'.objects = perf.objects
    /\ PerfAt("update_view_state") =>
          /\ perf'.view_id # perf.view_id
          /\ \A k \in DOMAIN perf.objects : perf'.objects[k] = perf.objects[k]
          /\ perf'.objects[perf'.view_id] = perf.objects[perf.view_id] + 1
          /\ perf'.view_state = perf'.objects[perf'.view_id]

\* C12: the view state is changed by the view-state update of a timer tick
\* only, which replaces it; the operations of the widget leave it alone.
C12_ViewStateFrame == [][C12_Step]_vars

C12_Witness ==
    /\ At("return")
    /\ Top.h = "recompute_hyperbolic_structure"
    /\ Count(log, "init_hyperbolic_structure") = 1
    /\ perf.view_state = 2
    /\ perf.view_id = 3
    /\ perf.objects = << 0, 1, 2 >>

\* C13 as claimed: every edit of cuspAreas[i], insphere_scale or
\* edgeTubeRadius is followed, before the handler returns, by the call that
\* recomputes the raytracing data and redraws; between events the raytracing
\* data is built from the parameters that are stored.
C13_AsClaimed ==
    /\ \A h \in {"cusp_area_command", "insphere_scale_command",
                  "edge_tube_radius_command"} :
          RunsInOrder(h, << "set_value",
                            "recompute_raytracing_data_and_redraw" >>)
    /\ Idle => raytracing_data.built_from = ui_parameter_dict

\* C13 as amended: an edit of cuspAreas[i] or insphere_scale is followed,
\* before the handler returns, by the call that recomputes the raytracing
\* data and redraws; an edit of edgeTubeRadius is followed by a redraw only,
\* and the raytracing data is not rebuilt.  Between events the raytracing
\* data is built from the stored cuspAreas and insphere_scale, and the image
\* is drawn from that data with the stored parameters.
C13_ParameterEdits ==
    /\ \A h \in {"cusp_area_command", "insphere_scale_command"} :
          RunsInOrder(h, << "set_value",
                            "recompute_raytracing_data_and_redraw" >>)
    /\ RunsInOrder("edge_tube_radius_command",
                   << "set_value", "redraw_if_initialized" >>)
    /\ (~Idle /\ stack[1].h = "edge_tube_radius_command")
          => Count(log, "recompute_raytracing_data_and_redraw") = 0
    /\ Idle =>
          /\ raytracing_data.built_from.cuspAreas = ui_parameter_dict.cuspAreas
          /\ raytracing_data.built_from.insphere_scale =
                ui_parameter_dict.insphere_scale
          /\ image = draw(raytracing_data, ui_parameter_dict)

C13_Witness ==
    /\ Idle
    /\ ui_parameter_dict.cuspAreas[0] = 30
    /\ ui_parameter_dict.insphere_scale = InsphereScaleTo
    /\ ui_parameter_dict.edgeTubeRadius = 30
    /\ raytracing_data.built_from.edgeTubeRadius = 0
    /\ raytracing_data.built_from.cuspAreas[0] = 30

====
